---- MODULE Spec2Model ----
(***************************************************************************)
(* Model of the two plugin tools of the repository:                        *)
(*   ExtractAudioTool._invoke  (tools/extract_audio.py)  -- tool "A"       *)
(*   VideoInfoTool._invoke     (tools/video_info.py)     -- tool "B"       *)
(* Each invocation is a sequential pipeline; every step that touches the   *)
(* network, the file system or an external binary may fail, and the model  *)
(* draws that outcome nondeterministically.  Strings whose characters the  *)
(* code inspects (urls, audio formats, base addresses) are sequences of    *)
(* one-character strings, so that startswith, lower and + are computed.    *)
(***************************************************************************)
EXTENDS Integers, Sequences, FiniteSets, TLC

VARIABLES inv, fs, now, env

vars == <<inv, fs, now, env>>

(* ------------------------------ bounds -------------------------------- *)

\* int(time.time()) takes the values 0..MaxClock during a run.
MaxClock == 1

(* ------------------------------ strings ------------------------------- *)

\* Python's None where a string is expected.
None == <<"<None>">>

S_mp3 == <<"m", "p", "3">>
S_aac == <<"a", "a", "c">>
S_wav == <<"w", "a", "v">>
S_ogg == <<"o", "g", "g">>
S_flac == <<"f", "l", "a", "c">>
S_http == <<"h", "t", "t", "p">>
S_http_scheme == <<"h", "t", "t", "p", ":", "/", "/">>
S_https_scheme == <<"h", "t", "t", "p", "s", ":", "/", "/">>
S_files_prefix == <<"/", "f", "i", "l", "e", "s", "/">>

\* The default of os.environ.get("DIFY_BASE_URL", ...) and Tool B's literal.
DefaultBaseUrl == <<"h", "t", "t", "p", ":", "/", "/", "a", "p", "i", ":", "5", "0", "0", "1">>

\* str.startswith(prefix)
StartsWith(s, p) == Len(s) >= Len(p) /\ SubSeq(s, 1, Len(p)) = p

\* str.startswith((p1, p2, ...))
StartsWithAny(s, ps) == \E p \in ps : StartsWith(s, p)

UpperToLower ==
    ("A" :> "a") @@ ("B" :> "b") @@ ("C" :> "c") @@ ("D" :> "d") @@ ("E" :> "e") @@
    ("F" :> "f") @@ ("G" :> "g") @@ ("H" :> "h") @@ ("I" :> "i") @@ ("J" :> "j") @@
    ("K" :> "k") @@ ("L" :> "l") @@ ("M" :> "m") @@ ("N" :> "n") @@ ("O" :> "o") @@
    ("P" :> "p") @@ ("Q" :> "q") @@ ("R" :> "r") @@ ("S" :> "s") @@ ("T" :> "t") @@
    ("U" :> "u") @@ ("V" :> "v") @@ ("W" :> "w") @@ ("X" :> "x") @@ ("Y" :> "y") @@
    ("Z" :> "z")

\* A lower() that folds nothing.
Lower_NoFold(s) == s

\* str.lower()
Lower(s) == [k \in 1..Len(s) |-> IF s[k] \in DOMAIN UpperToLower THEN UpperToLower[s[k]] ELSE s[k]]

\* Python truthiness of an optional string: None and "" are falsy.
Falsy(s) == s = None \/ s = <<>>

(* ------------------------------ get_field ----------------------------- *)

\* get_field(obj, field, default) on a mapping: obj.get(field, default)
get_field(obj, field, default) == IF field \in DOMAIN obj THEN obj[field] ELSE default

EmptyDict == <<>>

(* ------------------------------ file contents ------------------------- *)

NoData == [src |-> "", codec |-> ""]
Video(c) == [src |-> c, codec |-> "raw"]
Partial == [src |-> "", codec |-> "partial"]

NoPath == <<"", 0, <<>>>>

\* tempfile.NamedTemporaryFile(delete=False): a name unique to the call.
InTempPath(i) == <<"tmp", i, <<>>>>

\* os.path.join(tempfile.gettempdir(), f"audio_{int(time.time())}.{audio_format}")
OutTempPath(t, audio_format) == <<"audio", t, audio_format>>

Exists(path) == path \in DOMAIN fs

WriteFile(files, path, data) == [p \in DOMAIN files \cup {path} |-> IF p = path THEN data ELSE files[p]]

Unlink(files, path) == [p \in DOMAIN files \ {path} |-> files[p]]

(* ------------------------------ messages ------------------------------ *)

Msg(type, status, err, arg, data) ==
    [type |-> type, status |-> status, err |-> err, arg |-> arg, data |-> data]

\* self.create_text_message(...)
TextMsg(what) == Msg("text", what, "", "", NoData)

\* self.create_json_message({"status": "error", "message": ...})
JsonError(err, arg) == Msg("json", "error", err, arg, NoData)

\* self.create_json_message({"status": "success", ...})
JsonSuccess == Msg("json", "success", "", "", NoData)

\* self.create_blob_message(audio_data, meta=...)
BlobMsg(data) == Msg("blob", "", "", "", data)

(* ------------------------------ inputs -------------------------------- *)

U_files_a == S_files_prefix \o <<"a">>
U_tmp_a == <<"/", "t", "m", "p", "/", "a">>
U_http_v == S_http_scheme \o <<"h", "/", "v">>
U_https_v == S_https_scheme \o <<"h", "/", "v">>
U_httpx == S_http \o <<"x">>
U_ftp == <<"f", "t", "p", ":", "/", "/", "h">>
U_dify == S_http_scheme \o <<"d", "i", "f", "y">>

\* Values of the video reference's "url" field.
Urls == {<<>>, None, U_files_a, U_tmp_a, U_http_v, U_https_v, U_httpx, U_ftp}

\* Values of the video reference's "remote_url" field (read by Tool B only).
RemoteUrls == {None, U_http_v, U_httpx, U_ftp}

\* Values of the video reference's "transfer_method" field.
Methods == {"local_file", "remote_url", "ftp", ""}

\* Values of the "audio_format" parameter (read by Tool A only).
AudioFormats ==
    {S_mp3, <<"M", "P", "3">>, <<"W", "a", "v">>, S_aac, S_ogg, <<"F", "L", "A", "C">>,
     <<"m", "4", "a">>, <<"c", "o", "p", "y">>, <<>>, None}

\* Bodies a server may answer a GET with.
Contents == {"v1", "v2"}

\* A mapping holding `key` or not.
Opt(key, vals) == {EmptyDict} \cup {(key :> v) : v \in vals}

VideoDictsA == {a @@ b : a \in Opt("transfer_method", Methods), b \in Opt("url", Urls)}

VideoDictsB ==
    {a @@ b @@ c : a \in Opt("transfer_method", Methods), b \in Opt("url", Urls),
                   c \in Opt("remote_url", RemoteUrls)}

\* tool_parameters of an ExtractAudioTool invocation.
ParamsA == {v @@ f : v \in Opt("video", VideoDictsA), f \in Opt("audio_format", AudioFormats)}

\* tool_parameters of a VideoInfoTool invocation.
ParamsB == Opt("video", VideoDictsB)

\* os.environ: DIFY_BASE_URL set or unset.
Environments == Opt("DIFY_BASE_URL", {U_dify})

\* Outcomes of requests.get(url): it raises, or returns a status and a body.
Responses ==
    {[raises |-> TRUE, status |-> 0, content |-> NoData],
     [raises |-> FALSE, status |-> 404, content |-> NoData]}
    \cup {[raises |-> FALSE, status |-> 200, content |-> Video(c)] : c \in Contents}

(* ------------------------------ state --------------------------------- *)

\* The locals of one invocation at its entry, with what it has emitted
\* (msgs), requested (gets), created on disk (created) and done (hist:
\* "fetch" the fetch step entered, "fetched" a 200 answer received,
\* "materialize" the temp file written, "process" the external binary
\* started, "processed" it exited with 0, "emit" a message yielded,
\* "cleanup" a temp file deleted).
Start(tool, params) ==
    [tool |-> tool, params |-> params,
     pc |-> IF tool = "A" THEN "A_params" ELSE "B_params",
     transfer_method |-> "", file_url |-> <<>>, audio_format |-> <<>>,
     file_bytes |-> NoData, temp_path |-> NoPath, out_temp_path |-> NoPath,
     audio_data |-> NoData, stdout |-> "", exc |-> "none",
     msgs |-> <<>>, gets |-> <<>>, created |-> {}, hist |-> <<>>]

Starts == {Start("A", p) : p \in ParamsA} \cup {Start("B", p) : p \in ParamsB}

\* One invocation of either tool, alone on the machine.
Init ==
    /\ inv \in [{1} -> Starts]
    /\ fs = <<>>
    /\ now = 0
    /\ env \in Environments

Terminal == {"done", "raised"}

\* The exception `e` is raised in Tool A's outer try block (lines 43-118).
Raise(r, e) == [r EXCEPT !.exc = e, !.pc = "A_except"]

\* An exception leaves _invoke.
Escape(r, e) == [r EXCEPT !.exc = e, !.pc = "raised"]

\* The invocation's history records the step `kind` (with a detail).
Log(r, kind, detail) == [r EXCEPT !.hist = Append(@, <<kind, detail>>)]

Tag(m) == IF m.type = "json" THEN "json_" \o m.status ELSE m.type

\* yield m: the message goes to the caller.
Emit(r, m) == [Log(r, "emit", Tag(m)) EXCEPT !.msgs = Append(@, m)]

\* The clock behind time.time() advances.
Tick ==
    /\ now < MaxClock
    /\ now' = now + 1
    /\ UNCHANGED <<inv, fs, env>>

(* ------------------------------ Tool A -------------------------------- *)

\* extract_audio.py lines 20-28: read the parameters; .lower() of a
\* non-string audio_format raises outside every try block.
A_ReadParams(i) ==
    /\ inv[i].pc = "A_params"
    /\ LET r == inv[i]
           \* tool_parameters.get("video") or {}: an absent video reads as {}
           video_meta == get_field(r.params, "video", EmptyDict)
           requested == get_field(r.params, "audio_format", S_mp3)
       IN inv' = [inv EXCEPT ![i] =
                   IF requested = None
                   THEN Escape(r, "AttributeError")
                   ELSE [r EXCEPT !.transfer_method = get_field(video_meta, "transfer_method", "local_file"),
                                  !.file_url = get_field(video_meta, "url", <<>>),
                                  !.audio_format = Lower(requested),
                                  !.pc = "A_validate"]]
    /\ UNCHANGED <<fs, now, env>>

valid_formats == {S_mp3, S_aac, S_wav, S_ogg, S_flac}

\* extract_audio.py lines 30-33: an unsupported format becomes mp3, with a warning.
A_ValidateFormat(i) ==
    /\ inv[i].pc = "A_validate"
    /\ LET r == inv[i]
       IN inv' = [inv EXCEPT ![i] =
                   IF r.audio_format \notin valid_formats
                   THEN [Emit(r, TextMsg("warning")) EXCEPT !.audio_format = S_mp3, !.pc = "A_fetch"]
                   ELSE [r EXCEPT !.pc = "A_fetch"]]
    /\ UNCHANGED <<fs, now, env>>

\* requests.get(url) answered by `resp`, inside Tool A's try block.
A_Get(r, url, resp, failure) ==
    LET sent == [r EXCEPT !.gets = Append(@, url)]
    IN IF resp.raises THEN Raise(sent, "RequestException")
       ELSE IF resp.status # 200 THEN Raise(sent, failure)
       ELSE [Log(sent, "fetched", "") EXCEPT !.file_bytes = resp.content, !.pc = "A_write"]

\* The fetch step with a bare else in place of the local_file test: every
\* method that is not remote_url is served as a local file.
A_FetchResult_BareElse(r, resp) ==
    IF r.transfer_method = "remote_url"
    THEN IF Falsy(r.file_url) \/ ~StartsWithAny(r.file_url, {S_http_scheme, S_https_scheme})
         THEN Raise(r, "InvalidInput")
         ELSE A_Get(r, r.file_url, resp, "FetchFailed")
    ELSE IF Falsy(r.file_url) \/ ~StartsWith(r.file_url, S_files_prefix)
         THEN Raise(r, "InvalidInput")
         ELSE LET base_url == get_field(env, "DIFY_BASE_URL", DefaultBaseUrl)
              IN A_Get(r, base_url \o r.file_url, resp, "FetchFailed")

\* extract_audio.py lines 44-68: validate the url for the method and fetch.
A_FetchResult(r, resp) ==
    IF r.transfer_method = "remote_url"
    THEN IF Falsy(r.file_url) \/ ~StartsWithAny(r.file_url, {S_http_scheme, S_https_scheme})
         THEN Raise(r, "InvalidInput")
         ELSE A_Get(r, r.file_url, resp, "FetchFailed")
    ELSE IF r.transfer_method = "local_file"
    THEN IF Falsy(r.file_url) \/ ~StartsWith(r.file_url, S_files_prefix)
         THEN Raise(r, "InvalidInput")
         ELSE LET base_url == get_field(env, "DIFY_BASE_URL", DefaultBaseUrl)
              IN A_Get(r, base_url \o r.file_url, resp, "FetchFailed")
    ELSE Raise(r, "UnsupportedMethod")

A_Fetch(i) ==
    /\ inv[i].pc = "A_fetch"
    /\ \E resp \in Responses : inv' = [inv EXCEPT ![i] = A_FetchResult(Log(inv[i], "fetch", ""), resp)]
    /\ UNCHANGED <<fs, now, env>>

\* _get_codec_for_format, extract_audio.py lines 128-136
_get_codec_for_format(audio_format) ==
    IF audio_format = S_mp3 THEN "libmp3lame"
    ELSE IF audio_format = S_aac THEN "aac"
    ELSE IF audio_format = S_wav THEN "pcm_s16le"
    ELSE IF audio_format = S_ogg THEN "libvorbis"
    ELSE IF audio_format = S_flac THEN "flac"
    ELSE "copy"

\* What ffmpeg writes for the input `data` under `-acodec codec`.
Transcode(data, codec) == [src |-> data.src, codec |-> codec]

\* extract_audio.py lines 70-77: create the input temp file, write the
\* bytes, name the output file after the current second.  The file exists
\* from its creation on; a failing write leaves it behind, in_temp_path unset.
A_Write(i) ==
    /\ inv[i].pc = "A_write"
    /\ \E written \in BOOLEAN :
        LET r == [inv[i] EXCEPT !.created = @ \cup {InTempPath(i)}]
        IN IF written
           THEN /\ fs' = WriteFile(fs, InTempPath(i), r.file_bytes)
                /\ inv' = [inv EXCEPT ![i] =
                            [Log(r, "materialize", "") EXCEPT
                                !.temp_path = InTempPath(i),
                                !.out_temp_path = OutTempPath(now, r.audio_format),
                                !.pc = "A_progress"]]
           ELSE /\ fs' = WriteFile(fs, InTempPath(i), Partial)
                /\ inv' = [inv EXCEPT ![i] = Raise(r, "OSError")]
    /\ UNCHANGED <<now, env>>

\* extract_audio.py line 80: the progress text.
A_Progress(i) ==
    /\ inv[i].pc = "A_progress"
    /\ inv' = [inv EXCEPT ![i] = [Emit(inv[i], TextMsg("progress")) EXCEPT !.pc = "A_ffmpeg"]]
    /\ UNCHANGED <<fs, now, env>>

\* An exception raised inside the inner try (lines 79-112): the finally
\* block runs first, the exception stays pending.
RaiseInner(r, e) == [r EXCEPT !.exc = e, !.pc = "A_finally_in"]

\* extract_audio.py lines 82-87: run ffmpeg on the input file, overwriting
\* the output path; a failing run may leave a partial output file.
A_Ffmpeg(i) ==
    /\ inv[i].pc = "A_ffmpeg"
    /\ LET r == inv[i]
           codec == _get_codec_for_format(r.audio_format)
           made == [r EXCEPT !.created = @ \cup {r.out_temp_path}]
       IN \E outcome \in {"ok", "failed", "failed_partial"} :
           IF outcome = "ok"
           THEN /\ fs' = WriteFile(fs, r.out_temp_path, Transcode(fs[r.temp_path], codec))
                /\ inv' = [inv EXCEPT ![i] = [Log(Log(made, "process", codec), "processed", "") EXCEPT !.pc = "A_read"]]
           ELSE IF outcome = "failed_partial"
           THEN /\ fs' = WriteFile(fs, r.out_temp_path, Partial)
                /\ inv' = [inv EXCEPT ![i] = RaiseInner(Log(made, "process", codec), "ffmpeg.Error")]
           ELSE /\ fs' = fs
                /\ inv' = [inv EXCEPT ![i] = RaiseInner(Log(r, "process", codec), "ffmpeg.Error")]
    /\ UNCHANGED <<now, env>>

\* extract_audio.py lines 89-92: read the output file back.
A_Read(i) ==
    /\ inv[i].pc = "A_read"
    /\ LET r == inv[i]
       IN \E readable \in BOOLEAN :
           inv' = [inv EXCEPT ![i] =
                    IF ~Exists(r.out_temp_path) THEN RaiseInner(r, "FileNotFoundError")
                    ELSE IF ~readable THEN RaiseInner(r, "OSError")
                    ELSE [r EXCEPT !.audio_data = fs[r.out_temp_path], !.pc = "A_respond"]]
    /\ UNCHANGED <<fs, now, env>>

\* extract_audio.py lines 94-112: the blob, the success JSON, the summary.
A_Respond(i) ==
    /\ inv[i].pc = "A_respond"
    /\ LET r == inv[i]
           blob == Emit(r, BlobMsg(r.audio_data))
           json == Emit(blob, JsonSuccess)
           text == Emit(json, TextMsg("summary"))
       IN inv' = [inv EXCEPT ![i] = [text EXCEPT !.pc = "A_finally_in"]]
    /\ UNCHANGED <<fs, now, env>>

\* extract_audio.py lines 115-116: delete the input temp file if it exists;
\* os.unlink may raise, which leaves the finally block at once.
A_FinallyIn(i) ==
    /\ inv[i].pc = "A_finally_in"
    /\ LET r == inv[i]
       IN \E unlinked \in BOOLEAN :
           IF ~Exists(r.temp_path)
           THEN /\ fs' = fs
                /\ inv' = [inv EXCEPT ![i] = [r EXCEPT !.pc = "A_finally_out"]]
           ELSE IF unlinked
           THEN /\ fs' = Unlink(fs, r.temp_path)
                /\ inv' = [inv EXCEPT ![i] = [Log(r, "cleanup", "") EXCEPT !.pc = "A_finally_out"]]
           ELSE /\ fs' = fs
                /\ inv' = [inv EXCEPT ![i] = Raise(r, "OSError")]
    /\ UNCHANGED <<now, env>>

\* extract_audio.py lines 117-118: delete the output file if it exists; then
\* a pending exception reaches the outer except, otherwise _invoke returns.
A_FinallyOut(i) ==
    /\ inv[i].pc = "A_finally_out"
    /\ LET r == inv[i]
           after == [r EXCEPT !.pc = IF r.exc # "none" THEN "A_except" ELSE "done"]
       IN \E unlinked \in BOOLEAN :
           IF ~Exists(r.out_temp_path)
           THEN /\ fs' = fs
                /\ inv' = [inv EXCEPT ![i] = after]
           ELSE IF unlinked
           THEN /\ fs' = Unlink(fs, r.out_temp_path)
                /\ inv' = [inv EXCEPT ![i] = Log(after, "cleanup", "")]
           ELSE /\ fs' = fs
                /\ inv' = [inv EXCEPT ![i] = Raise(r, "OSError")]
    /\ UNCHANGED <<now, env>>

\* extract_audio.py lines 120-126: the catch-all: error text and error JSON.
A_Except(i) ==
    /\ inv[i].pc = "A_except"
    /\ LET r == inv[i]
           arg == IF r.exc = "UnsupportedMethod" THEN r.transfer_method ELSE ""
           text == Emit(r, TextMsg("error"))
       IN inv' = [inv EXCEPT ![i] = [Emit(text, JsonError(r.exc, arg)) EXCEPT !.pc = "done"]]
    /\ UNCHANGED <<fs, now, env>>

(* ------------------------------ Tool B -------------------------------- *)

\* An early error return of Tool B: the text, the error JSON, return.
B_Reject(r, err, arg) ==
    [Emit(Emit(r, TextMsg("error")), JsonError(err, arg)) EXCEPT !.pc = "done"]

\* video_info.py lines 20-34: a missing video is rejected; otherwise the
\* fields are read with their defaults.
B_ReadParams(i) ==
    /\ inv[i].pc = "B_params"
    /\ LET r == inv[i]
       IN inv' = [inv EXCEPT ![i] =
                   IF "video" \notin DOMAIN r.params
                   THEN B_Reject(r, "MissingVideo", "")
                   ELSE [r EXCEPT !.transfer_method = get_field(r.params.video, "transfer_method", "local_file"),
                                  !.file_url = get_field(r.params.video, "url", <<>>),
                                  !.pc = "B_fetch"]]
    /\ UNCHANGED <<fs, now, env>>

\* requests.get(url) answered by `resp`, outside every try block of Tool B.
B_Get(r, url, resp) ==
    LET sent == [r EXCEPT !.gets = Append(@, url)]
    IN IF resp.raises THEN Escape(sent, "RequestException")
       ELSE IF resp.status # 200 THEN B_Reject(sent, "FetchFailed", "")
       ELSE [Log(sent, "fetched", "") EXCEPT !.file_bytes = resp.content, !.pc = "B_write"]

\* video_info.py lines 37-81: validate the url for the method and fetch.
\* startswith on a None url raises; the base address is the literal.
B_FetchResult(r, resp) ==
    IF r.transfer_method = "local_file"
    THEN IF r.file_url = None THEN Escape(r, "AttributeError")
         ELSE IF ~StartsWith(r.file_url, S_files_prefix) THEN B_Reject(r, "InvalidInput", "")
         ELSE LET base_url == DefaultBaseUrl
              IN B_Get(r, base_url \o r.file_url, resp)
    ELSE IF r.transfer_method = "remote_url"
    THEN LET full_url == get_field(r.params.video, "remote_url", <<>>)
         IN IF full_url = None THEN Escape(r, "AttributeError")
            ELSE IF ~StartsWith(full_url, S_http) THEN B_Reject(r, "InvalidInput", "")
            ELSE B_Get(r, full_url, resp)
    ELSE B_Reject(r, "UnsupportedMethod", r.transfer_method)

B_Fetch(i) ==
    /\ inv[i].pc = "B_fetch"
    /\ \E resp \in Responses : inv' = [inv EXCEPT ![i] = B_FetchResult(Log(inv[i], "fetch", ""), resp)]
    /\ UNCHANGED <<fs, now, env>>

\* An exception raised in Tool B's try block (lines 84-150).
RaiseB(r, e) == [r EXCEPT !.exc = e, !.pc = "B_except"]

\* video_info.py lines 83-87: create the temp file and write the bytes;
\* temp_file_path is assigned only after the write.
B_Write(i) ==
    /\ inv[i].pc = "B_write"
    /\ \E written \in BOOLEAN :
        LET r == [inv[i] EXCEPT !.created = @ \cup {InTempPath(i)}]
        IN IF written
           THEN /\ fs' = WriteFile(fs, InTempPath(i), r.file_bytes)
                /\ inv' = [inv EXCEPT ![i] =
                            [Log(r, "materialize", "") EXCEPT !.temp_path = InTempPath(i), !.pc = "B_probe"]]
           ELSE /\ fs' = WriteFile(fs, InTempPath(i), Partial)
                /\ inv' = [inv EXCEPT ![i] = RaiseB(r, "OSError")]
    /\ UNCHANGED <<now, env>>

\* video_info.py lines 89-98: run ffprobe; a non-zero exit raises.
B_Probe(i) ==
    /\ inv[i].pc = "B_probe"
    /\ LET r == Log(inv[i], "process", "ffprobe")
       IN \E outcome \in {"json", "malformed", "nonzero"} :
           inv' = [inv EXCEPT ![i] =
                    IF outcome = "nonzero" THEN RaiseB(r, "ProbeFailed")
                    ELSE [Log(r, "processed", "") EXCEPT !.stdout = outcome, !.pc = "B_parse"]]
    /\ UNCHANGED <<fs, now, env>>

\* video_info.py lines 100-147: parse and reshape the report; output that
\* is not the expected JSON raises.
B_Parse(i) ==
    /\ inv[i].pc = "B_parse"
    /\ LET r == inv[i]
       IN inv' = [inv EXCEPT ![i] =
                   IF r.stdout # "json" THEN RaiseB(r, "ValueError")
                   ELSE [r EXCEPT !.pc = "B_respond"]]
    /\ UNCHANGED <<fs, now, env>>

\* video_info.py lines 149-150: the summary text and the metadata JSON.
B_Respond(i) ==
    /\ inv[i].pc = "B_respond"
    /\ LET r == inv[i]
           text == Emit(r, TextMsg("summary"))
       IN inv' = [inv EXCEPT ![i] = [Emit(text, JsonSuccess) EXCEPT !.pc = "B_finally"]]
    /\ UNCHANGED <<fs, now, env>>

\* video_info.py lines 152-158: the catch-all: error text and error JSON.
B_Except(i) ==
    /\ inv[i].pc = "B_except"
    /\ LET r == inv[i]
           text == Emit(r, TextMsg("error"))
       IN inv' = [inv EXCEPT ![i] = [Emit(text, JsonError(r.exc, "")) EXCEPT !.pc = "B_finally"]]
    /\ UNCHANGED <<fs, now, env>>

\* video_info.py lines 159-161: delete the temp file if its path was
\* recorded and it exists; os.unlink may raise, and nothing catches it.
B_Finally(i) ==
    /\ inv[i].pc = "B_finally"
    /\ LET r == inv[i]
       IN \E unlinked \in BOOLEAN :
           IF r.temp_path = NoPath \/ ~Exists(r.temp_path)
           THEN /\ fs' = fs
                /\ inv' = [inv EXCEPT ![i] = [r EXCEPT !.pc = "done"]]
           ELSE IF unlinked
           THEN /\ fs' = Unlink(fs, r.temp_path)
                /\ inv' = [inv EXCEPT ![i] = [Log(r, "cleanup", "") EXCEPT !.pc = "done"]]
           ELSE /\ fs' = fs
                /\ inv' = [inv EXCEPT ![i] = Escape(r, "OSError")]
    /\ UNCHANGED <<now, env>>

(* ------------------------------ specifications ------------------------ *)

Next ==
    \/ Tick
    \/ \E i \in DOMAIN inv : A_ReadParams(i)
    \/ \E i \in DOMAIN inv : A_ValidateFormat(i)
    \/ \E i \in DOMAIN inv : A_Fetch(i)
    \/ \E i \in DOMAIN inv : A_Write(i)
    \/ \E i \in DOMAIN inv : A_Progress(i)
    \/ \E i \in DOMAIN inv : A_Ffmpeg(i)
    \/ \E i \in DOMAIN inv : A_Read(i)
    \/ \E i \in DOMAIN inv : A_Respond(i)
    \/ \E i \in DOMAIN inv : A_FinallyIn(i)
    \/ \E i \in DOMAIN inv : A_FinallyOut(i)
    \/ \E i \in DOMAIN inv : A_Except(i)
    \/ \E i \in DOMAIN inv : B_ReadParams(i)
    \/ \E i \in DOMAIN inv : B_Fetch(i)
    \/ \E i \in DOMAIN inv : B_Write(i)
    \/ \E i \in DOMAIN inv : B_Probe(i)
    \/ \E i \in DOMAIN inv : B_Parse(i)
    \/ \E i \in DOMAIN inv : B_Respond(i)
    \/ \E i \in DOMAIN inv : B_Except(i)
    \/ \E i \in DOMAIN inv : B_Finally(i)

\* One invocation of either tool, with every fault the steps can meet.
Spec == Init /\ [][Next]_vars

\* Two ExtractAudioTool invocations in separate threads of one host,
\* fetching remote urls; they share the temp directory and the clock.
ConcParams ==
    {("video" :> (("transfer_method" :> "remote_url") @@ ("url" :> U_http_v)))
        @@ ("audio_format" :> f) : f \in {S_mp3, S_wav}}

InitConc ==
    /\ inv \in [{1, 2} -> {Start("A", p) : p \in ConcParams}]
    /\ fs = <<>>
    /\ now = 0
    /\ env = EmptyDict

NextConc ==
    \/ Tick
    \/ \E i \in DOMAIN inv : A_ReadParams(i)
    \/ \E i \in DOMAIN inv : A_ValidateFormat(i)
    \/ \E i \in DOMAIN inv : A_Fetch(i)
    \/ \E i \in DOMAIN inv : A_Write(i)
    \/ \E i \in DOMAIN inv : A_Progress(i)
    \/ \E i \in DOMAIN inv : A_Ffmpeg(i)
    \/ \E i \in DOMAIN inv : A_Read(i)
    \/ \E i \in DOMAIN inv : A_Respond(i)
    \/ \E i \in DOMAIN inv : A_FinallyIn(i)
    \/ \E i \in DOMAIN inv : A_FinallyOut(i)
    \/ \E i \in DOMAIN inv : A_Except(i)

SpecConc == InitConc /\ [][NextConc]_vars

(* ------------------------------ observations -------------------------- *)

Range(f) == {f[k] : k \in DOMAIN f}

Ended(r) == r.pc \in Terminal

JsonAt(r, status) == {k \in DOMAIN r.msgs : r.msgs[k].type = "json" /\ r.msgs[k].status = status}

Blobs(r) == {k \in DOMAIN r.msgs : r.msgs[k].type = "blob"}

\* The video reference the caller passed, as the tool reads it.
GivenVideo(r) == get_field(r.params, "video", EmptyDict)

GivenMethod(r) == get_field(GivenVideo(r), "transfer_method", "local_file")

\* The url the reference carries for its method (Tool B keeps a remote
\* address in the field remote_url).
GivenUrl(r) ==
    IF r.tool = "B" /\ GivenMethod(r) = "remote_url"
    THEN get_field(GivenVideo(r), "remote_url", <<>>)
    ELSE get_field(GivenVideo(r), "url", <<>>)

Supported == {"local_file", "remote_url"}

EnteredFetch(r) == <<"fetch", "">> \in Range(r.hist)

LeftOnDisk(r) == {p \in r.created : Exists(p)}

\* Positions of the events of `kind` in a history.
Pos(h, kind) == {k \in DOMAIN h : h[k][1] = kind}

\* Every event of kind b comes after some event of kind a.
Precedes(h, a, b) == \A kb \in Pos(h, b) : \E ka \in Pos(h, a) : ka < kb

ResultEmits(h) == {k \in DOMAIN h : h[k] \in {<<"emit", "blob">>, <<"emit", "json_success">>}}

(* ------------------------------ claims -------------------------------- *)

\* C1: no invocation of either tool ends with an exception escaping to the
\* caller; one that met a failure ends with the error text followed by the
\* JSON message {status: "error", message}.
C1_NeverThrows ==
    \A i \in DOMAIN inv :
        LET r == inv[i]
            n == Len(r.msgs)
        IN /\ r.pc # "raised"
           /\ (r.pc = "done" /\ r.exc # "none") =>
                /\ n >= 2
                /\ r.msgs[n - 1] = TextMsg("error")
                /\ r.msgs[n].type = "json" /\ r.msgs[n].status = "error"

\* C2: once an invocation has ended, none of the temporary files it
\* created is left on disk.
C2_NoTempFileRemains ==
    \A i \in DOMAIN inv : Ended(inv[i]) => LeftOnDisk(inv[i]) = {}

\* C3: an invocation that has returned emitted exactly one JSON result
\* message, and a Tool A invocation with a success JSON exactly one blob.
C3_ExactlyOneJson ==
    \A i \in DOMAIN inv :
        LET r == inv[i]
        IN r.pc = "done" =>
            /\ Cardinality(JsonAt(r, "success") \cup JsonAt(r, "error")) = 1
            /\ (r.tool = "A" /\ JsonAt(r, "success") # {}) => Cardinality(Blobs(r)) = 1

\* The failures C4 lists: validation, non-200 download, external binary
\* exiting non-zero, file I/O, cleanup.
ListedFailures ==
    {"InvalidInput", "FetchFailed", "UnsupportedMethod", "ffmpeg.Error", "ProbeFailed",
     "OSError", "FileNotFoundError"}

\* C4: an ended invocation in which a step failed emitted an error JSON and
\* neither a blob nor a success JSON.
C4_FailureEmitsOnlyError ==
    \A i \in DOMAIN inv :
        LET r == inv[i]
        IN (Ended(r) /\ (r.exc \in ListedFailures \/ JsonAt(r, "error") # {})) =>
            /\ JsonAt(r, "error") # {}
            /\ Blobs(r) = {}
            /\ JsonAt(r, "success") = {}

\* C5: the steps run in the order fetch, materialize, process, respond,
\* cleanup: the binary starts only after a 200 answer and the written temp
\* file, a blob or success JSON is emitted only after the binary finished,
\* no temp file is deleted before the results are out, and every temp file
\* is gone when the invocation has ended.
C5_StepOrder ==
    \A i \in DOMAIN inv :
        LET r == inv[i]
            h == r.hist
        IN /\ Precedes(h, "fetched", "materialize")
           /\ Precedes(h, "materialize", "process")
           /\ \A k \in ResultEmits(h) : \E kp \in Pos(h, "processed") : kp < k
           /\ \A k \in ResultEmits(h) : \A kc \in Pos(h, "cleanup") : k < kc
           /\ Ended(r) => LeftOnDisk(r) = {}

\* C6: when the fetch step meets a transfer_method other than local_file and
\* remote_url it fails with the unsupported-method error naming the method:
\* no GET is issued, no temp file is created, nothing but the error is
\* reported, and the invocation returns with that error JSON as its last message.
C6_UnsupportedMethod ==
    \A i \in DOMAIN inv :
        LET r == inv[i]
            n == Len(r.msgs)
        IN (EnteredFetch(r) /\ GivenMethod(r) \notin Supported) =>
            /\ r.gets = <<>>
            /\ r.created = {}
            /\ DOMAIN fs = {}
            /\ Blobs(r) = {} /\ JsonAt(r, "success") = {}
            /\ \/ r.pc = "A_except" /\ r.exc = "UnsupportedMethod"
               \/ /\ r.pc = "done"
                  /\ n >= 2
                  /\ r.msgs[n - 1] = TextMsg("error")
                  /\ r.msgs[n] = JsonError("UnsupportedMethod", GivenMethod(r))

\* C6 witness: an invocation given the method "ftp" has returned with the
\* unsupported-method error JSON.
C6_Witness ==
    \E i \in DOMAIN inv :
        /\ inv[i].pc = "done"
        /\ GivenMethod(inv[i]) = "ftp"
        /\ EnteredFetch(inv[i])
        /\ JsonError("UnsupportedMethod", "ftp") \in Range(inv[i].msgs)

ValidShape(method, url) ==
    /\ url # None
    /\ method = "remote_url" => StartsWithAny(url, {S_http_scheme, S_https_scheme})
    /\ method = "local_file" => StartsWith(url, S_files_prefix)

\* C7: a GET is issued only for a url of the shape its method requires
\* (remote_url: http:// or https://, local_file: /files/); with any other
\* url string the invocation ends with the InvalidInput error JSON and no GET.
C7_GetOnlyForValidUrl ==
    \A i \in DOMAIN inv :
        LET r == inv[i]
        IN /\ r.gets # <<>> => ValidShape(GivenMethod(r), GivenUrl(r))
           /\ (Ended(r) /\ EnteredFetch(r) /\ GivenMethod(r) \in Supported
                     /\ GivenUrl(r) # None /\ ~ValidShape(GivenMethod(r), GivenUrl(r))) =>
                /\ r.pc = "done"
                /\ r.gets = <<>>
                /\ \E k \in JsonAt(r, "error") : r.msgs[k].err = "InvalidInput"

\* What the documentation gives for each requested audio_format of the
\* model: the effective format, and whether a warning is due.
C8_Documented ==
    (S_mp3 :> <<S_mp3, 0>>) @@ (<<"M", "P", "3">> :> <<S_mp3, 0>>) @@
    (<<"W", "a", "v">> :> <<S_wav, 0>>) @@ (S_aac :> <<S_aac, 0>>) @@
    (S_ogg :> <<S_ogg, 0>>) @@ (<<"F", "L", "A", "C">> :> <<S_flac, 0>>) @@
    (<<"m", "4", "a">> :> <<S_mp3, 1>>) @@ (<<"c", "o", "p", "y">> :> <<S_mp3, 1>>) @@
    (<<>> :> <<S_mp3, 1>>)

C8_DocumentedCodec ==
    (S_mp3 :> "libmp3lame") @@ (S_aac :> "aac") @@ (S_wav :> "pcm_s16le") @@
    (S_ogg :> "libvorbis") @@ (S_flac :> "flac")

\* C8: in Tool A, for a requested audio_format string, once the format is
\* validated the effective format is the requested one (case folded) when
\* it is supported and mp3 otherwise, a warning is emitted exactly in the
\* second case and exactly once, the invocation goes on to the fetch step
\* instead of ending, and every codec handed to ffmpeg is the documented
\* one for the effective format, never stream copy.
C8_FormatAndCodec ==
    \A i \in DOMAIN inv :
        LET r == inv[i]
            requested == get_field(r.params, "audio_format", S_mp3)
            warnings == {k \in DOMAIN r.msgs : r.msgs[k] = TextMsg("warning")}
        IN (r.tool = "A" /\ requested # None /\ r.pc \notin {"A_params", "A_validate"}) =>
            /\ r.audio_format = C8_Documented[requested][1]
            /\ Cardinality(warnings) = C8_Documented[requested][2]
            /\ Ended(r) => EnteredFetch(r)
            /\ \A k \in Pos(r.hist, "process") :
                /\ r.hist[k][2] = C8_DocumentedCodec[C8_Documented[requested][1]]
                /\ r.hist[k][2] # "copy"

\* C8 witness: an invocation asked for "m4a" has run ffmpeg and returned its
\* results after the warning.
C8_Witness ==
    \E i \in DOMAIN inv :
        /\ inv[i].tool = "A"
        /\ get_field(inv[i].params, "audio_format", S_mp3) = <<"m", "4", "a">>
        /\ inv[i].pc = "done"
        /\ TextMsg("warning") \in Range(inv[i].msgs)
        /\ <<"process", "libmp3lame">> \in Range(inv[i].hist)
        /\ JsonAt(inv[i], "success") # {}

\* C9: under every interleaving of two Tool A invocations, each one's
\* outcome is what it is alone: a blob it emits carries the audio of the
\* bytes it fetched itself, and the output file it wrote is there to read.
C9_Isolated ==
    \A i \in DOMAIN inv :
        LET r == inv[i]
        IN /\ \A k \in Blobs(r) :
                r.msgs[k].data = Transcode(r.file_bytes, _get_codec_for_format(r.audio_format))
           /\ r.exc # "FileNotFoundError"

\* C10: with local_file and a url starting with /files/, the one GET goes to
\* base + url, base being DIFY_BASE_URL when set and http://api:5001 when unset.
C10_BaseFromEnvironment ==
    \A i \in DOMAIN inv :
        LET r == inv[i]
            url == get_field(GivenVideo(r), "url", <<>>)
            base == IF "DIFY_BASE_URL" \in DOMAIN env THEN env["DIFY_BASE_URL"] ELSE DefaultBaseUrl
        IN (GivenMethod(r) = "local_file" /\ r.gets # <<>>) => r.gets = <<base \o url>>

====
